---- MODULE Spec2Model ----
(***************************************************************************)
(* BetterMend minimal QuickCart backend (src/server.js).                   *)
(*                                                                         *)
(* State: the two JSON documents (data/products.json, data/carts.json),    *)
(* the wall clock, and the requests in flight.  Every await of a handler   *)
(* is a scheduling point: an action is the synchronous stretch of a        *)
(* handler between two awaits, together with the storage operation whose   *)
(* completion resumes it.  A read or a write of a document is one storage  *)
(* operation (spec.md 1: the storage medium is an opaque document store).  *)
(***************************************************************************)
EXTENDS Integers, Sequences, FiniteSets, TLC

VARIABLES now, prodFile, cartFile, req, lastWriter

vars == <<now, prodFile, cartFile, req, lastWriter>>

(***************************************************************************)
(* Bounds of the model.                                                    *)
(***************************************************************************)
\* requests the server receives
NReq == 2
\* milliseconds the clock advances while the server runs
MaxClock == 1
\* items of a request body in the validation specification
MaxItems == 2

Reqs == 1..NReq

(***************************************************************************)
(* JavaScript values as they arrive in a JSON body or a query string.      *)
(* t is the typeof tag; a number is finite (n) unless s names NaN or       *)
(* Infinity.                                                               *)
(***************************************************************************)
Undef == [t |-> "undefined", n |-> 0, s |-> ""]
Null == [t |-> "null", n |-> 0, s |-> ""]
Num(k) == [t |-> "number", n |-> k, s |-> ""]
NaN == [t |-> "number", n |-> 0, s |-> "NaN"]
Inf == [t |-> "number", n |-> 0, s |-> "Infinity"]
Str(x) == [t |-> "string", n |-> 0, s |-> x]

IsFiniteNum(v) == v.t = "number" /\ v.s = ""

\* String.prototype.trim, on the strings the model uses
Trim(x) ==
  CASE x = " " -> ""
    [] x = " A " -> "A"
    [] x = " u1 " -> "u1"
    [] x = " 2 " -> "2"
    [] OTHER -> x

\* StringToNumber of ECMAScript (white space is trimmed, the empty string is 0,
\* anything that is no numeric literal is NaN), on the strings the model uses
StringToNumber(x) ==
  LET y == Trim(x) IN
  CASE y = "" -> Num(0)
    [] y = "0" -> Num(0)
    [] y = "1" -> Num(1)
    [] y = "2" -> Num(2)
    [] y = "3" -> Num(3)
    [] y = "9" -> Num(9)
    [] y = "-1" -> Num(-1)
    [] y = "01" -> Num(1)
    [] y = "Infinity" -> Inf
    [] OTHER -> NaN

\* Number(v)
Number(v) ==
  CASE v.t = "undefined" -> NaN
    [] v.t = "null" -> Num(0)
    [] v.t = "number" -> v
    [] v.t = "string" -> StringToNumber(v.s)
    [] OTHER -> NaN

\* a === b on two numbers: NaN equals nothing
StrictEqNum(a, b) == a.s # "NaN" /\ b.s # "NaN" /\ a = b

\* !v : the falsy values
Falsy(v) ==
  \/ v.t \in {"undefined", "null"}
  \/ v.t = "string" /\ v.s = ""
  \/ v.t = "number" /\ (v.s = "NaN" \/ (v.s = "" /\ v.n = 0))

\* parseInt(v, 10) of a query-string value (absent or a string)
ParseInt(v) ==
  IF v.t # "string" THEN NaN
  ELSE LET y == Trim(v.s) IN
       CASE y = "0" -> Num(0)
         [] y = "1" -> Num(1)
         [] y = "2" -> Num(2)
         [] y = "3" -> Num(3)
         [] y = "9" -> Num(9)
         [] y = "-1" -> Num(-1)
         [] y = "01" -> Num(1)
         [] OTHER -> NaN

(***************************************************************************)
(* Time.  A timestamp is milliseconds since the epoch, kept as days and    *)
(* milliseconds of the day; an ISO string is kept as its fields.           *)
(***************************************************************************)
DayMs == 1000 * 60 * 60 * 24
SevenDays == 1000 * 60 * 60 * 24 * 7

\* the instant the model's clock starts from: 2024-02-22T23:59:59.999Z
ServerStart == [day |-> 19775, ms |-> DayMs - 1]

AddMs(t, k) ==
  LET total == t.ms + k IN
  [day |-> t.day + (total \div DayMs), ms |-> total % DayMs]

\* Date.now()
DateNow(clock) == AddMs(ServerStart, clock)

\* the civil date of a day number (proleptic Gregorian calendar, UTC)
CivilFromDays(days) ==
  LET z == days + 719468
      era == z \div 146097
      doe == z - era * 146097
      yoe == (doe - (doe \div 1460) + (doe \div 36524) - (doe \div 146096)) \div 365
      doy == doe - (365 * yoe + (yoe \div 4) - (yoe \div 100))
      mp == (5 * doy + 2) \div 153
      d == doy - ((153 * mp + 2) \div 5) + 1
      m == IF mp < 10 THEN mp + 3 ELSE mp - 9
  IN [year |-> yoe + era * 400 + (IF m <= 2 THEN 1 ELSE 0), month |-> m, day |-> d]

\* Date.prototype.toISOString: YYYY-MM-DDTHH:mm:ss.sssZ
ToISOString(t) ==
  LET c == CivilFromDays(t.day) IN
  [year |-> c.year, month |-> c.month, day |-> c.day, tod |-> t.ms]

\* the timestamp an ISO string denotes (Date.parse)
DaysFromCivil(y0, m, d) ==
  LET y == IF m <= 2 THEN y0 - 1 ELSE y0
      era == y \div 400
      yoe == y - era * 400
      doy == ((153 * (IF m > 2 THEN m - 3 ELSE m + 9) + 2) \div 5) + d - 1
      doe == yoe * 365 + (yoe \div 4) - (yoe \div 100) + doy
  IN era * 146097 + doe - 719468

DateParse(iso) == [day |-> DaysFromCivil(iso.year, iso.month, iso.day), ms |-> iso.tod]

Pad2(k) == IF k < 10 THEN "0" \o ToString(k) ELSE ToString(k)

\* iso.slice(0, 10).replace(/-/g, '')
DateDigits(iso) == ToString(iso.year) \o Pad2(iso.month) \o Pad2(iso.day)

\* Math.floor(Math.random() * 9000) + 1000 ranges over 1000..9999
RndChoices == {1000, 9999}

GenerateCartIdFrom(clock, rnd) ==
  "CART-" \o DateDigits(ToISOString(DateNow(clock))) \o "-" \o ToString(rnd)

(***************************************************************************)
(* Documents and records.                                                  *)
(***************************************************************************)
\* a document that was never written (readFile fails with ENOENT)
AbsentFile == [exists |-> FALSE, data |-> <<>>]
FileOf(records) == [exists |-> TRUE, data |-> records]

Product(id, name) == [id |-> id, name |-> name]
NoProduct == Product(Undef, "")

\* the catalog used by the requests: ids stored as a number, as a numeric
\* string, and a second record whose id coerces to the first one's
Catalog == << Product(Num(1), "Apple"), Product(Str("2"), "Pear"), Product(Str("01"), "Shadow") >>
Catalogs == {AbsentFile, FileOf(Catalog)}

Item(pid, qty) == [k |-> "object", product_id |-> pid, quantity |-> qty]
\* items[i] === null: reading a property of it throws a TypeError
NullItem == [k |-> "null", product_id |-> Undef, quantity |-> Undef]
\* items[i] is a number or a string: its properties are undefined
PrimItem == [k |-> "primitive", product_id |-> Undef, quantity |-> Undef]

ArrayOf(a) == [t |-> "array", a |-> a]
NotArray(t) == [t |-> t, a |-> <<>>]

Body(cartId, customerId, items) == [cart_id |-> cartId, customer_id |-> customerId, items |-> items]
NoBody == Body(Undef, Undef, NotArray("undefined"))

NoIso == [year |-> 0, month |-> 0, day |-> 0, tod |-> 0]
NoCart ==
  [cart_id |-> "", customer_id |-> "", items |-> <<>>, status |-> "",
   created_at |-> NoIso, updated_at |-> NoIso, expires_at |-> NoIso]

NoResponse ==
  [status |-> 0, error |-> "", details |-> <<>>, cart_id |-> "", cstatus |-> "",
   message |-> "", total |-> 0, products |-> <<>>, product |-> NoProduct, carts |-> <<>>]

\* res.status(code).json({ success: false, error })
ErrorResponse(code, error) == [NoResponse EXCEPT !.status = code, !.error = error]

\* JSON.stringify writes a number that is NaN or infinite as null
JsonNumber(v) == IF v.t = "number" /\ v.s # "" THEN Null ELSE v

\* a cart saved by an earlier run of the server, a day before this one started
OldCart ==
  LET at == AddMs(ServerStart, 0 - DayMs) IN
  [cart_id |-> "A", customer_id |-> "u1",
   items |-> << [product_id |-> Num(1), quantity |-> Num(1)] >>,
   status |-> "saved",
   created_at |-> ToISOString(at), updated_at |-> ToISOString(at),
   expires_at |-> ToISOString(AddMs(at, SevenDays))]

\* the cart document when the server starts
CartDocuments == {AbsentFile, FileOf(<< OldCart >>)}

(***************************************************************************)
(* Storage helpers.                                                        *)
(***************************************************************************)
\* readJsonOrEmpty: a missing document reads as the empty array
ReadJsonOrEmpty(file) == IF file.exists THEN file.data ELSE <<>>

JsonCart(c) ==
  [c EXCEPT !.items = [i \in 1..Len(c.items) |->
      [product_id |-> JsonNumber(c.items[i].product_id),
       quantity |-> JsonNumber(c.items[i].quantity)]]]

\* writeJson: the whole array replaces the document
WriteJson(records) == FileOf([i \in 1..Len(records) |-> JsonCart(records[i])])

(***************************************************************************)
(* POST /carts, the synchronous pieces.                                    *)
(***************************************************************************)
\* line 93, negated
CustomerIdOk(body) ==
  /\ ~Falsy(body.customer_id)
  /\ body.customer_id.t = "string"
  /\ Trim(body.customer_id.s) # ""

\* a variant of line 96 that forgets the length check
ItemsOkAnyArray(body) == body.items.t = "array"

\* line 96, negated
ItemsOk(body) == body.items.t = "array" /\ Len(body.items.a) > 0

\* a variant of the lookup that returns the last match
FindLastProduct(products, pid) ==
  LET hits == {i \in 1..Len(products) : StrictEqNum(Number(products[i].id), pid)}
  IN IF hits = {} THEN 0 ELSE CHOOSE i \in hits : \A j \in hits : i >= j

\* products.find(p => Number(p.id) === pid): the first match, 0 when none
FindProduct(products, pid) ==
  LET hits == {i \in 1..Len(products) : StrictEqNum(Number(products[i].id), pid)}
  IN IF hits = {} THEN 0 ELSE CHOOSE i \in hits : \A j \in hits : i <= j

Detail(index, reason, pid) == [index |-> index, reason |-> reason, product_id |-> pid]

\* a variant of lines 104-119 that checks the quantity before the presence
\* of the two fields
CheckItemQuantityFirst(it, i, products) ==
  LET qty == Number(it.quantity) IN
  IF ~IsFiniteNum(qty) \/ qty.n <= 0
  THEN << Detail(i, "quantity must be a positive number", Undef) >>
  ELSE IF it.product_id.t = "undefined" \/ it.quantity.t = "undefined"
  THEN << Detail(i, "product_id and quantity are required", Undef) >>
  ELSE LET pid == Number(it.product_id) IN
       IF FindProduct(products, pid) = 0
       THEN << Detail(i, "product_not_found", pid) >>
       ELSE << >>

\* lines 104-119 for one item: the entry pushed to invalidItems, if any
CheckItem(it, i, products) ==
  IF it.product_id.t = "undefined" \/ it.quantity.t = "undefined"
  THEN << Detail(i, "product_id and quantity are required", Undef) >>
  ELSE LET qty == Number(it.quantity) IN
       IF ~IsFiniteNum(qty) \/ qty.n <= 0
       THEN << Detail(i, "quantity must be a positive number", Undef) >>
       ELSE LET pid == Number(it.product_id) IN
            IF FindProduct(products, pid) = 0
            THEN << Detail(i, "product_not_found", pid) >>
            ELSE << >>

\* a variant of the loop that stops at the first invalid item
RECURSIVE ValidateFailFast(_, _, _, _)
ValidateFailFast(items, products, k, acc) ==
  IF k > Len(items) \/ Len(acc) > 0 THEN [threw |-> FALSE, invalid |-> acc]
  ELSE IF items[k].k = "null" THEN [threw |-> TRUE, invalid |-> acc]
  ELSE ValidateFailFast(items, products, k + 1, acc \o CheckItem(items[k], k - 1, products))

\* lines 102-120: the loop over body.items from position k (index k - 1);
\* a null item makes the loop throw
RECURSIVE ValidateFrom(_, _, _, _)
ValidateFrom(items, products, k, acc) ==
  IF k > Len(items) THEN [threw |-> FALSE, invalid |-> acc]
  ELSE IF items[k].k = "null" THEN [threw |-> TRUE, invalid |-> acc]
  ELSE ValidateFrom(items, products, k + 1, acc \o CheckItem(items[k], k - 1, products))

ValidateItems(items, products) == ValidateFrom(items, products, 1, << >>)

\* line 122: the 400 response, as res.json sends it
InvalidItemsResponse(invalidItems) ==
  [ErrorResponse(400, "invalid_items") EXCEPT
     !.details = [i \in 1..Len(invalidItems) |->
                   [invalidItems[i] EXCEPT !.product_id = JsonNumber(@)]]]

\* line 129: the supplied id, trimmed, when it is a non-blank string
HasCartId(body) ==
  /\ ~Falsy(body.cart_id)
  /\ body.cart_id.t = "string"
  /\ Trim(body.cart_id.s) # ""

\* a variant of line 129 that keeps the supplied id as it was sent
ResolveCartIdAsSent(body, clock, rnd) ==
  IF HasCartId(body) THEN body.cart_id.s ELSE GenerateCartIdFrom(clock, rnd)

\* line 129
ResolveCartId(body, clock, rnd) ==
  IF HasCartId(body) THEN Trim(body.cart_id.s) ELSE GenerateCartIdFrom(clock, rnd)

\* carts.findIndex(c => c.cart_id === cartId): 0-based, -1 when none
FindIndex(carts, cartId) ==
  LET hits == {i \in 1..Len(carts) : carts[i].cart_id = cartId}
  IN IF hits = {} THEN -1 ELSE (CHOOSE i \in hits : \A j \in hits : i <= j) - 1

\* a variant of line 140 that stores the items as they were sent
MapItemsAsSent(items) ==
  [i \in 1..Len(items) |->
    [product_id |-> items[i].product_id, quantity |-> items[i].quantity]]

\* line 140
MapItems(items) ==
  [i \in 1..Len(items) |->
    [product_id |-> Number(items[i].product_id), quantity |-> Number(items[i].quantity)]]

\* line 134: createdAt, from the clock read there
CreatedAt(t) == ToISOString(t)

\* line 135: expiresAt, from the clock read there
ExpiresAt(t) == ToISOString(AddMs(t, SevenDays))

\* a variant of line 142 that stamps every write with the current time
CreatedAtOfNow(carts, existingIndex, createdAt) == createdAt

\* line 142
CreatedAtOf(carts, existingIndex, createdAt) ==
  IF existingIndex >= 0 THEN carts[existingIndex + 1].created_at ELSE createdAt

\* a variant of lines 137-145 that leaves a cart to the customer who owns it
NewCartOfOwner(body, cartId, carts, existingIndex, createdAt, expiresAt) ==
  [cart_id |-> cartId,
   customer_id |-> IF existingIndex >= 0 THEN carts[existingIndex + 1].customer_id
                   ELSE body.customer_id.s,
   items |-> MapItems(body.items.a),
   status |-> "saved",
   created_at |-> CreatedAtOf(carts, existingIndex, createdAt),
   updated_at |-> createdAt,
   expires_at |-> expiresAt]

\* lines 137-145
NewCart(body, cartId, carts, existingIndex, createdAt, expiresAt) ==
  [cart_id |-> cartId,
   customer_id |-> body.customer_id.s,
   items |-> MapItems(body.items.a),
   status |-> "saved",
   created_at |-> CreatedAtOf(carts, existingIndex, createdAt),
   updated_at |-> createdAt,
   expires_at |-> expiresAt]

\* a variant of lines 147-151 that always pushes
UpsertByPush(carts, existingIndex, newCart) == Append(carts, newCart)

\* a variant of lines 147-151 that moves a replaced record to the end
UpsertAtEnd(carts, existingIndex, newCart) ==
  Append(SelectSeq(carts, LAMBDA c : c.cart_id # newCart.cart_id), newCart)

\* lines 147-151
Upsert(carts, existingIndex, newCart) ==
  IF existingIndex >= 0
  THEN [carts EXCEPT ![existingIndex + 1] = newCart]
  ELSE Append(carts, newCart)

\* a variant of line 155 that always reports a creation
StatusCodeCreated(existingIndex) == 201

\* line 155
StatusCode(existingIndex) == IF existingIndex >= 0 THEN 200 ELSE 201

\* lines 156-161
SavedResponse(cartId, newCart, existingIndex) ==
  [NoResponse EXCEPT
     !.status = StatusCode(existingIndex),
     !.cart_id = cartId,
     !.cstatus = newCart.status,
     !.message = IF existingIndex >= 0 THEN "Cart updated" ELSE "Cart saved"]

(***************************************************************************)
(* Requests.  req[r] is the r-th request to arrive, from its arrival to    *)
(* its response, which it keeps.                                           *)
(*   pc: idle, products (awaiting the product read), carts (awaiting the   *)
(*       cart read), write (awaiting writeJson), done.                     *)
(* Besides the handler's locals a slot records what the request did to     *)
(* storage: prodReads, cartReads, cartWrites count its storage operations, *)
(* prodSnap and snap are the documents as it read them, stale says that    *)
(* another request wrote the cart document after this one read it,         *)
(* existedAtWrite that the document held cartId when this one's write took *)
(* effect, overlap the requests that had read but not yet written when     *)
(* this one read, before the POST /carts requests that resolved to the     *)
(* cart_id this one supplies and had been answered with success when this  *)
(* one arrived, readFailed that a read of this request failed with an      *)
(* error other than a missing document.                                    *)
(***************************************************************************)

IdleReq ==
  [op |-> "none", pc |-> "idle", body |-> NoBody, query |-> Undef,
   carts |-> <<>>, cartId |-> "", existingIndex |-> -1, newCart |-> NoCart,
   rsp |-> NoResponse,
   prodReads |-> 0, cartReads |-> 0, cartWrites |-> 0,
   prodSnap |-> <<>>, snap |-> <<>>, stale |-> FALSE, existedAtWrite |-> FALSE,
   overlap |-> {}, before |-> {}, readFailed |-> FALSE]

PostBodies ==
  { Body(Str("A"), Str("u1"), ArrayOf(<< Item(Num(1), Num(2)) >>)),
    Body(Str(" A "), Str("u2"), ArrayOf(<< Item(Str("2"), Str("3")), Item(Str("01"), Num(1)) >>)),
    Body(Undef, Str("u2"), ArrayOf(<< Item(Num(1), Num(1)) >>)),
    Body(Str(" "), Str("u1"), ArrayOf(<< Item(Num(1), Num(1)) >>)),
    Body(Str("A"), Str(" "), ArrayOf(<< Item(Num(1), Num(2)) >>)),
    Body(Str("A"), Str("u1"),
         ArrayOf(<< Item(Num(1), Num(2)), Item(Num(9), Num(1)), Item(Num(1), Num(0)) >>)) }

LimitQueries == {Undef, Str("2"), Str("0"), Str("-1"), Str("abc")}
IdParams == {Str("1"), Str("01"), Str("2"), Str("9"), Str("abc")}
CustomerQueries == {Undef, Str(""), Str("u1"), Str("u2")}

\* the bodies of the validation specification: every combination of a
\* customer_id, a cart_id and an items value
CustomerIdChoices == {Undef, Num(5), Str(""), Str(" "), Str("u1"), Str(" u1 ")}
CartIdChoices == {Undef, Str("A")}
ItemChoices ==
  { Item(Num(1), Num(2)), Item(Str("2"), Str("3")),
    Item(Num(9), Num(1)), Item(Str("abc"), Num(1)), Item(Null, Num(1)),
    Item(Undef, Num(1)), Item(Num(1), Undef),
    Item(Num(1), Num(0)), Item(Num(9), Num(-1)), Item(Num(1), Str("abc")),
    Item(Num(1), Str("Infinity")), Item(Num(1), Null),
    NullItem, PrimItem }

RECURSIVE SeqsUpTo(_, _)
SeqsUpTo(S, n) ==
  IF n = 0 THEN {<< >>}
  ELSE LET shorter == SeqsUpTo(S, n - 1)
       IN shorter \cup {Append(a, x) : a \in {b \in shorter : Len(b) = n - 1}, x \in S}

ItemsChoices ==
  {NotArray("undefined"), NotArray("string"), NotArray("object")}
    \cup {ArrayOf(a) : a \in SeqsUpTo(ItemChoices, MaxItems)}

ValidationBodies ==
  {Body(c, u, i) : c \in CartIdChoices, u \in CustomerIdChoices, i \in ItemsChoices}

\* the bodies of the id-resolution specification: a valid cart with every
\* kind of cart_id
ResolveCartIds == {Undef, Num(7), Str(" "), Str("A"), Str(" A ")}
ResolveBodies ==
  {Body(c, Str("u1"), ArrayOf(<< Item(Num(1), Num(1)) >>)) : c \in ResolveCartIds}

\* the outcome of a storage operation: done, or failed with an I/O error
IoOutcomes == {"ok", "EIO"}

\* the clock may advance between two reads of it within a handler
ClockSteps == {0, 1}

\* requests arrive one after the other: r is the next one
Arrives(r) == req[r].pc = "idle" /\ \A s \in Reqs : s < r => req[s].pc # "idle"

\* the r-th request arrives
Take(r, fresh) ==
  /\ req' = [req EXCEPT ![r] = fresh]
  /\ UNCHANGED lastWriter

Finish(r, rsp) == req' = [req EXCEPT ![r].pc = "done", ![r].rsp = rsp]

(***************************************************************************)
(* POST /carts                                                             *)
(***************************************************************************)
\* lines 88-101: the request arrives; the two required-field checks; the
\* product read is issued
AnsweredBefore(body) ==
  {s \in Reqs : /\ req[s].op = "POST /carts"
                /\ req[s].pc = "done"
                /\ req[s].rsp.status \in {200, 201}
                /\ HasCartId(body)
                /\ req[s].cartId = Trim(body.cart_id.s)}

PostCarts(r, body) ==
  /\ Arrives(r)
  /\ LET fresh == [IdleReq EXCEPT !.op = "POST /carts", !.body = body,
                                  !.before = AnsweredBefore(body)]
     IN IF ~CustomerIdOk(body)
        THEN Take(r, [fresh EXCEPT !.pc = "done", !.rsp = ErrorResponse(400, "missing_customer_id")])
        ELSE IF ~ItemsOk(body)
        THEN Take(r, [fresh EXCEPT !.pc = "done", !.rsp = ErrorResponse(400, "items_required")])
        ELSE Take(r, [fresh EXCEPT !.pc = "products"])
  /\ UNCHANGED <<now, prodFile, cartFile>>

\* a variant of lines 101-126 that saves the items that passed before it
\* rejects the request
PostCartsValidateSavingValid(r, io) ==
  /\ req[r].op = "POST /carts"
  /\ req[r].pc = "products"
  /\ io = "ok"
  /\ LET products == ReadJsonOrEmpty(prodFile)
         items == req[r].body.items.a
         v == ValidateItems(items, products)
         bad == {v.invalid[i].index + 1 : i \in 1..Len(v.invalid)}
         good == SelectSeq(items, LAMBDA it : \E k \in (1..Len(items)) \ bad : items[k] = it)
         carts == ReadJsonOrEmpty(cartFile)
         partial == [NoCart EXCEPT !.cart_id = "partial", !.items = MapItems(good)]
         me == [req[r] EXCEPT !.prodReads = @ + 1, !.prodSnap = products]
     IN IF v.threw
        THEN /\ req' = [req EXCEPT ![r] =
                  [me EXCEPT !.pc = "done", !.rsp = ErrorResponse(500, "internal_server_error")]]
             /\ UNCHANGED <<cartFile, lastWriter>>
        ELSE IF Len(v.invalid) > 0
        THEN /\ req' = [req EXCEPT ![r] =
                  [me EXCEPT !.pc = "done", !.cartWrites = IF Len(good) > 0 THEN 1 ELSE 0,
                             !.rsp = InvalidItemsResponse(v.invalid)]]
             /\ cartFile' = IF Len(good) > 0 THEN WriteJson(Append(carts, partial)) ELSE cartFile
             /\ lastWriter' = IF Len(good) > 0 THEN r ELSE lastWriter
        ELSE /\ req' = [req EXCEPT ![r] = [me EXCEPT !.pc = "carts"]]
             /\ UNCHANGED <<cartFile, lastWriter>>
  /\ UNCHANGED <<now, prodFile>>

\* lines 101-126: the product read completes; every item is validated; the
\* cart read is issued
PostCartsValidate(r, io) ==
  /\ req[r].op = "POST /carts"
  /\ req[r].pc = "products"
  /\ LET products == ReadJsonOrEmpty(prodFile)
         v == ValidateItems(req[r].body.items.a, products)
         me == [req[r] EXCEPT !.prodReads = @ + 1]
     IN IF io # "ok"
        THEN req' = [req EXCEPT ![r] =
               [me EXCEPT !.pc = "done", !.readFailed = TRUE,
                          !.rsp = ErrorResponse(500, "internal_server_error")]]
        ELSE IF v.threw
        THEN req' = [req EXCEPT ![r] =
               [me EXCEPT !.pc = "done", !.prodSnap = products,
                          !.rsp = ErrorResponse(500, "internal_server_error")]]
        ELSE IF Len(v.invalid) > 0
        THEN req' = [req EXCEPT ![r] =
               [me EXCEPT !.pc = "done", !.prodSnap = products,
                          !.rsp = InvalidItemsResponse(v.invalid)]]
        ELSE req' = [req EXCEPT ![r] = [me EXCEPT !.pc = "carts", !.prodSnap = products]]
  /\ UNCHANGED <<now, prodFile, cartFile, lastWriter>>

\* lines 126-153: the cart read completes; the id is resolved, the record is
\* built and put into the array; writeJson is issued.  The clock is read for
\* the generated id (line 49), for createdAt (line 134) and for expiresAt
\* (line 135); it has advanced by d0 since it was last read, and advances by
\* d1 and d2 between these reads.
PostCartsBuild(r, io, rnd, d0, d1, d2) ==
  /\ req[r].op = "POST /carts"
  /\ req[r].pc = "carts"
  /\ now + d0 + d1 + d2 <= MaxClock
  /\ LET carts == ReadJsonOrEmpty(cartFile)
         body == req[r].body
         clock == [gen |-> now + d0, created |-> now + d0 + d1, expires |-> now + d0 + d1 + d2]
         cartId == ResolveCartId(body, clock.gen, rnd)
         existingIndex == FindIndex(carts, cartId)
         createdAt == CreatedAt(DateNow(clock.created))
         expiresAt == ExpiresAt(DateNow(clock.expires))
         newCart == NewCart(body, cartId, carts, existingIndex, createdAt, expiresAt)
         me == [req[r] EXCEPT !.cartReads = @ + 1]
     IN IF io # "ok"
        THEN /\ req' = [req EXCEPT ![r] =
                  [me EXCEPT !.pc = "done", !.readFailed = TRUE,
                             !.rsp = ErrorResponse(500, "internal_server_error")]]
             /\ now' = now
        ELSE /\ req' = [req EXCEPT ![r] =
                  [me EXCEPT !.pc = "write", !.snap = carts, !.cartId = cartId,
                             !.existingIndex = existingIndex, !.newCart = newCart,
                             !.carts = Upsert(carts, existingIndex, newCart),
                             !.stale = FALSE,
                             !.overlap = {s \in Reqs \ {r} : req[s].pc = "write"}]]
             /\ now' = clock.expires
  /\ UNCHANGED <<prodFile, cartFile, lastWriter>>

\* a variant of lines 153-161 that puts the record into the collection as it
\* is when the write takes effect
PostCartsWriteMerging(r, io) ==
  /\ req[r].op = "POST /carts"
  /\ req[r].pc = "write"
  /\ io = "ok"
  /\ LET current == ReadJsonOrEmpty(cartFile)
         k == FindIndex(current, req[r].cartId)
     IN cartFile' = WriteJson(Upsert(current, k, req[r].newCart))
  /\ req' = [s \in Reqs |->
       IF s = r
       THEN [req[r] EXCEPT
              !.pc = "done", !.cartWrites = @ + 1,
              !.existedAtWrite = req[r].cartId \in {ReadJsonOrEmpty(cartFile)[i].cart_id :
                                                     i \in 1..Len(ReadJsonOrEmpty(cartFile))},
              !.rsp = SavedResponse(req[r].cartId, req[r].newCart, req[r].existingIndex)]
       ELSE IF req[s].pc = "write" THEN [req[s] EXCEPT !.stale = TRUE]
       ELSE req[s]]
  /\ lastWriter' = r
  /\ UNCHANGED <<now, prodFile>>

\* lines 153-161: writeJson takes effect and the response is sent
PostCartsWrite(r, io) ==
  /\ req[r].op = "POST /carts"
  /\ req[r].pc = "write"
  /\ IF io # "ok"
     THEN /\ Finish(r, ErrorResponse(500, "internal_server_error"))
          /\ UNCHANGED <<cartFile, lastWriter>>
     ELSE /\ cartFile' = WriteJson(req[r].carts)
          /\ req' = [s \in Reqs |->
               IF s = r
               THEN [req[r] EXCEPT
                      !.pc = "done", !.cartWrites = @ + 1,
                      !.existedAtWrite =
                         \E i \in 1..Len(ReadJsonOrEmpty(cartFile)) :
                            ReadJsonOrEmpty(cartFile)[i].cart_id = req[r].cartId,
                      !.rsp = SavedResponse(req[r].cartId, req[r].newCart, req[r].existingIndex)]
               ELSE IF req[s].pc = "write" THEN [req[s] EXCEPT !.stale = TRUE]
               ELSE req[s]]
          /\ lastWriter' = r
  /\ UNCHANGED <<now, prodFile>>

(***************************************************************************)
(* GET /products                                                           *)
(***************************************************************************)
\* line 59: parseInt(req.query.limit, 10) || 10
LimitOf(q) == LET p == ParseInt(q) IN IF Falsy(p) THEN Num(10) ELSE p

\* whether a value of this kind has the method: an array has slice, the
\* promise an async function returns has only then, catch and finally
HasMethod(kind, method) ==
  \/ kind = "array" /\ method \in {"slice", "find", "findIndex", "filter", "map", "push"}
  \/ kind = "promise" /\ method \in {"then", "catch", "finally"}

\* Array.prototype.slice(0, end)
SliceTo(a, end) ==
  LET k == IF end.n < 0 THEN (IF Len(a) + end.n < 0 THEN 0 ELSE Len(a) + end.n)
           ELSE IF end.n > Len(a) THEN Len(a) ELSE end.n
  IN SubSeq(a, 1, k)

\* lines 57-66.  In line 60 the member access binds tighter than await:
\* slice is looked up on the promise that readJsonOrEmpty returns, before
\* anything is awaited.  The read that call started is left to itself.
GetProducts(r, q) ==
  /\ Arrives(r)
  /\ LET fresh == [IdleReq EXCEPT !.op = "GET /products", !.query = q, !.prodReads = 1]
         limit == LimitOf(q)
         products == SliceTo(ReadJsonOrEmpty(prodFile), limit)
     IN IF ~HasMethod("promise", "slice")
        THEN Take(r, [fresh EXCEPT !.pc = "done",
                                   !.rsp = ErrorResponse(500, "internal_server_error")])
        ELSE Take(r, [fresh EXCEPT !.pc = "done",
                                   !.rsp = [NoResponse EXCEPT !.status = 200,
                                              !.total = Len(products),
                                              !.products = products]])
  /\ UNCHANGED <<now, prodFile, cartFile>>

(***************************************************************************)
(* GET /products/:id                                                       *)
(***************************************************************************)
\* lines 71-73: the request arrives and the product read is issued
GetProduct(r, q) ==
  /\ Arrives(r)
  /\ Take(r, [IdleReq EXCEPT !.op = "GET /products/:id", !.query = q, !.pc = "products"])
  /\ UNCHANGED <<now, prodFile, cartFile>>

\* a variant of lines 73-77 for which a missing product document is an error
GetProductReadStrict(r, io) ==
  /\ req[r].op = "GET /products/:id"
  /\ req[r].pc = "products"
  /\ LET products == ReadJsonOrEmpty(prodFile)
         k == FindProduct(products, Number(req[r].query))
     IN req' = [req EXCEPT ![r] =
          [req[r] EXCEPT
             !.pc = "done", !.prodReads = @ + 1, !.prodSnap = products,
             !.readFailed = (io # "ok"),
             !.rsp = IF io # "ok" \/ ~prodFile.exists
                     THEN ErrorResponse(500, "internal_server_error")
                     ELSE IF k = 0 THEN ErrorResponse(404, "product_not_found")
                     ELSE [NoResponse EXCEPT !.status = 200, !.product = products[k]]]]
  /\ UNCHANGED <<now, prodFile, cartFile, lastWriter>>

\* lines 73-77: the read completes and the product is looked up
GetProductRead(r, io) ==
  /\ req[r].op = "GET /products/:id"
  /\ req[r].pc = "products"
  /\ LET products == ReadJsonOrEmpty(prodFile)
         id == Number(req[r].query)
         k == FindProduct(products, id)
         me == [req[r] EXCEPT !.prodReads = @ + 1]
     IN IF io # "ok"
        THEN req' = [req EXCEPT ![r] =
               [me EXCEPT !.pc = "done", !.readFailed = TRUE,
                          !.rsp = ErrorResponse(500, "internal_server_error")]]
        ELSE IF k = 0
        THEN req' = [req EXCEPT ![r] =
               [me EXCEPT !.pc = "done", !.prodSnap = products,
                          !.rsp = ErrorResponse(404, "product_not_found")]]
        ELSE req' = [req EXCEPT ![r] =
               [me EXCEPT !.pc = "done", !.prodSnap = products,
                          !.rsp = [NoResponse EXCEPT !.status = 200, !.product = products[k]]]]
  /\ UNCHANGED <<now, prodFile, cartFile, lastWriter>>

(***************************************************************************)
(* GET /carts                                                              *)
(***************************************************************************)
\* lines 171-178: the request arrives; customer_id is required; the cart
\* read is issued
GetCarts(r, q) ==
  /\ Arrives(r)
  /\ LET fresh == [IdleReq EXCEPT !.op = "GET /carts", !.query = q]
     IN IF Falsy(q)
        THEN Take(r, [fresh EXCEPT !.pc = "done", !.rsp = ErrorResponse(400, "missing_user_id")])
        ELSE Take(r, [fresh EXCEPT !.pc = "carts"])
  /\ UNCHANGED <<now, prodFile, cartFile>>

\* a variant of line 179 that keeps every cart
FilterNothing(carts, userId) == carts

\* line 179
FilterByCustomer(carts, userId) == SelectSeq(carts, LAMBDA c : c.customer_id = userId.s)

\* lines 178-180: the read completes and the customer's carts are returned
GetCartsRead(r, io) ==
  /\ req[r].op = "GET /carts"
  /\ req[r].pc = "carts"
  /\ LET carts == ReadJsonOrEmpty(cartFile)
         userCarts == FilterByCustomer(carts, req[r].query)
         me == [req[r] EXCEPT !.cartReads = @ + 1]
     IN IF io # "ok"
        THEN req' = [req EXCEPT ![r] =
               [me EXCEPT !.pc = "done", !.readFailed = TRUE,
                          !.rsp = ErrorResponse(500, "internal_server_error")]]
        ELSE req' = [req EXCEPT ![r] =
               [me EXCEPT !.pc = "done", !.snap = carts,
                          !.rsp = [NoResponse EXCEPT !.status = 200,
                                     !.total = Len(userCarts), !.carts = userCarts]]]
  /\ UNCHANGED <<now, prodFile, cartFile, lastWriter>>

(***************************************************************************)
(* The server.                                                             *)
(***************************************************************************)
Init ==
  /\ now = 0
  /\ prodFile \in Catalogs
  /\ cartFile \in CartDocuments
  /\ req = [r \in Reqs |-> IdleReq]
  /\ lastWriter = 0

\* the cart endpoints, with storage operations ending in one of the outcomes ios
CartSide(ios) ==
  \/ \E r \in Reqs, body \in PostBodies : PostCarts(r, body)
  \/ \E r \in Reqs, io \in ios : PostCartsValidate(r, io)
  \/ \E r \in Reqs, io \in ios, rnd \in RndChoices,
          d0 \in ClockSteps, d1 \in ClockSteps, d2 \in ClockSteps :
       PostCartsBuild(r, io, rnd, d0, d1, d2)
  \/ \E r \in Reqs, io \in ios : PostCartsWrite(r, io)
  \/ \E r \in Reqs, q \in CustomerQueries : GetCarts(r, q)
  \/ \E r \in Reqs, io \in ios : GetCartsRead(r, io)

\* the product endpoints
CatalogSide(ios) ==
  \/ \E r \in Reqs, q \in LimitQueries : GetProducts(r, q)
  \/ \E r \in Reqs, q \in IdParams : GetProduct(r, q)
  \/ \E r \in Reqs, io \in ios : GetProductRead(r, io)

\* the cart endpoints on storage that does not fail
Next == CartSide({"ok"})

Spec == Init /\ [][Next]_vars

\* one POST /carts, with any body, on storage that does not fail
NextValidate ==
  \/ Arrives(1) /\ \E body \in ValidationBodies : PostCarts(1, body)
  \/ PostCartsValidate(1, "ok")
  \/ \E rnd \in RndChoices, d0 \in ClockSteps, d1 \in ClockSteps, d2 \in ClockSteps :
       PostCartsBuild(1, "ok", rnd, d0, d1, d2)
  \/ PostCartsWrite(1, "ok")

SpecValidate == Init /\ [][NextValidate]_vars

\* the product endpoints on storage that does not fail
NextCatalog == CatalogSide({"ok"})

SpecCatalog == Init /\ [][NextCatalog]_vars

\* POST /carts requests that differ in their cart_id, on storage that does
\* not fail
NextResolve ==
  \/ \E r \in Reqs, body \in ResolveBodies : PostCarts(r, body)
  \/ \E r \in Reqs : PostCartsValidate(r, "ok")
  \/ \E r \in Reqs, rnd \in RndChoices,
          d0 \in ClockSteps, d1 \in ClockSteps, d2 \in ClockSteps :
       PostCartsBuild(r, "ok", rnd, d0, d1, d2)
  \/ \E r \in Reqs : PostCartsWrite(r, "ok")

SpecResolve == Init /\ [][NextResolve]_vars

\* the four routes on storage that does not fail
NextServer == CartSide({"ok"}) \/ CatalogSide({"ok"})

SpecServer == Init /\ [][NextServer]_vars

\* the four routes on storage whose operations may fail
NextIo == CartSide(IoOutcomes) \/ CatalogSide(IoOutcomes)

SpecIo == Init /\ [][NextIo]_vars

(***************************************************************************)
(* Properties.                                                             *)
(***************************************************************************)
\* r is a POST /carts that has been answered
Posted(r) == req[r].op = "POST /carts" /\ req[r].pc = "done"

\* r is a POST /carts that has been answered with success
Saved(r) == Posted(r) /\ req[r].rsp.status \in {200, 201}

\* the cart collection
Stored == ReadJsonOrEmpty(cartFile)

\* the positions of a collection that hold cart_id id
PositionsOf(carts, id) == {i \in 1..Len(carts) : carts[i].cart_id = id}

CartIdsOf(carts) == {carts[i].cart_id : i \in 1..Len(carts)}

\* first and second are two successful submissions of the same cart_id, the
\* second arrived after the first was answered, and the second's write is the
\* latest write to the collection
Resubmitted(first, second) ==
  /\ Saved(first)
  /\ Saved(second)
  /\ first \in req[second].before
  /\ lastWriter = second

\* C1 as stated: after a second submission of a cart_id the collection holds
\* exactly one record with it, created_at is the time of the first submission,
\* updated_at and expires_at are those of the second.
C1_CreatedAtIsFirstSubmission ==
  \A first \in Reqs, second \in Reqs :
    Resubmitted(first, second) =>
      /\ Cardinality(PositionsOf(Stored, req[second].cartId)) = 1
      /\ \A i \in PositionsOf(Stored, req[second].cartId) :
           /\ Stored[i].created_at = req[first].newCart.updated_at
           /\ Stored[i].updated_at = req[second].newCart.updated_at
           /\ Stored[i].expires_at = req[second].newCart.expires_at

\* the record first stored is the one second found when it read the collection
StillStored(first, second) ==
  \E i \in 1..Len(req[second].snap) : req[second].snap[i] = JsonCart(req[first].newCart)

\* C1, amended: after a second submission of a cart_id the collection holds
\* exactly one record with it, with the second's updated_at and expires_at; if
\* the record the first stored is the one the second read, created_at is the
\* created_at the first stored: the time of the first submission when the
\* first created the record (201), the older created_at it kept otherwise.
C1_CreatedAtPreserved ==
  \A first \in Reqs, second \in Reqs :
    Resubmitted(first, second) =>
      /\ Cardinality(PositionsOf(Stored, req[second].cartId)) = 1
      /\ \A i \in PositionsOf(Stored, req[second].cartId) :
           /\ Stored[i].updated_at = req[second].newCart.updated_at
           /\ Stored[i].expires_at = req[second].newCart.expires_at
           /\ StillStored(first, second) =>
                /\ Stored[i].created_at = req[first].newCart.created_at
                /\ req[first].rsp.status = 201 =>
                     Stored[i].created_at = req[first].newCart.updated_at
                /\ req[first].rsp.status = 200 =>
                     \E j \in 1..Len(req[first].snap) :
                        /\ req[first].snap[j].cart_id = req[first].cartId
                        /\ Stored[i].created_at = req[first].snap[j].created_at

\* a cart_id was submitted a second time, after a first submission that
\* created it, at a later time
C1_Witness ==
  \E first \in Reqs, second \in Reqs :
    /\ Resubmitted(first, second)
    /\ StillStored(first, second)
    /\ req[first].rsp.status = 201
    /\ req[second].rsp.status = 200
    /\ req[second].newCart.updated_at # req[first].newCart.updated_at

\* expires_at is updated_at plus seven days
SevenDaysAfter(c) == DateParse(c.expires_at) = AddMs(DateParse(c.updated_at), SevenDays)

\* C2: every record of the cart collection has expires_at = updated_at + 7
\* days exactly, whatever the clock does between the handler's clock reads.
C2_ExpiresSevenDaysAfterUpdate ==
  \A i \in 1..Len(Stored) : SevenDaysAfter(Stored[i])

\* C3: a POST /carts answered 400 performs no write of the cart store and
\* leaves the cart collection as it was, also when only some of its items are
\* invalid.
C3_RejectedNeverWrites ==
  \A r \in Reqs :
    Posted(r) /\ req[r].rsp.status = 400 =>
      /\ req[r].rsp.error \in {"missing_customer_id", "items_required", "invalid_items"}
      /\ req[r].cartWrites = 0
      /\ lastWriter = 0
      /\ cartFile \in CartDocuments

\* the item passes every check of the handler against the catalog it read
ItemIsValid(it, products) ==
  /\ it.product_id.t # "undefined"
  /\ it.quantity.t # "undefined"
  /\ IsFiniteNum(Number(it.quantity)) /\ Number(it.quantity).n > 0
  /\ \E i \in 1..Len(products) : StrictEqNum(Number(products[i].id), Number(it.product_id))

\* a request was rejected for one invalid item although another item is valid
C3_Witness ==
  \E r \in Reqs :
    /\ Posted(r)
    /\ req[r].rsp.status = 400
    /\ req[r].rsp.error = "invalid_items"
    /\ \E k \in 1..Len(req[r].body.items.a) :
         ItemIsValid(req[r].body.items.a[k], req[r].prodSnap)

\* the 0-based indices of the invalid items of a request
InvalidIndices(r) ==
  {k - 1 : k \in {j \in 1..Len(req[r].body.items.a) :
                    ~ItemIsValid(req[r].body.items.a[j], req[r].prodSnap)}}

\* the details list names every invalid index once, in ascending order, and
\* no valid one, each with the reason of the first check the item fails
ExhaustiveDetails(r) ==
  LET details == req[r].rsp.details
      items == req[r].body.items.a
  IN /\ {details[i].index : i \in 1..Len(details)} = InvalidIndices(r)
     /\ \A i \in 1..Len(details), j \in 1..Len(details) :
          i < j => details[i].index < details[j].index
     /\ \A i \in 1..Len(details) :
          LET it == items[details[i].index + 1] IN
          details[i].reason =
            IF it.product_id.t = "undefined" \/ it.quantity.t = "undefined"
            THEN "product_id and quantity are required"
            ELSE IF ~(IsFiniteNum(Number(it.quantity)) /\ Number(it.quantity).n > 0)
            THEN "quantity must be a positive number"
            ELSE "product_not_found"

\* r passed the two required-field checks and none of its items is null
ReachesItemChecks(r) ==
  /\ Posted(r)
  /\ req[r].prodReads = 1
  /\ \A k \in 1..Len(req[r].body.items.a) : req[r].body.items.a[k].k # "null"

BadCustomerId(body) ==
  body.customer_id.t # "string" \/ Trim(body.customer_id.s) \in {""}

\* items is not a non-empty array
BadItems(body) == body.items.t # "array" \/ body.items.a = << >>

\* C5: a POST /carts with a bad customer_id or without a non-empty items array
\* is rejected without any read of the product or of the cart collection.
C5_RejectedBeforeCatalogRead ==
  \A r \in Reqs :
    req[r].op = "POST /carts" /\ (BadCustomerId(req[r].body) \/ BadItems(req[r].body)) =>
      /\ req[r].pc = "done"
      /\ req[r].rsp.status = 400
      /\ req[r].rsp.error \in {"missing_customer_id", "items_required"}
      /\ req[r].prodReads = 0
      /\ req[r].cartReads = 0

\* a request with a good customer_id and an empty items array was rejected
C5_Witness ==
  \E r \in Reqs :
    /\ Posted(r)
    /\ ~BadCustomerId(req[r].body)
    /\ req[r].body.items.t = "array"
    /\ req[r].body.items.a = << >>
    /\ req[r].rsp.error = "items_required"
    /\ req[r].prodReads = 0

\* C6: no two records of the cart collection share a cart_id, whatever the
\* requests and their interleaving, generated ids that collide included.
C6_CartIdUnique ==
  \A i \in 1..Len(Stored), j \in 1..Len(Stored) :
    i # j => Stored[i].cart_id # Stored[j].cart_id

\* two requests were saved under the same generated id, beside another record
C6_Witness ==
  \E r1 \in Reqs, r2 \in Reqs :
    /\ r1 # r2
    /\ Saved(r1) /\ Saved(r2)
    /\ ~HasCartId(req[r1].body) /\ ~HasCartId(req[r2].body)
    /\ req[r1].cartId = req[r2].cartId
    /\ Len(Stored) >= 2

\* the collection r read held a record with the id r resolved
FoundWhenRead(r) == req[r].cartId \in CartIdsOf(req[r].snap)

\* the response carries the resolved id and the stored status
CarriesIdAndStatus(r) ==
  /\ req[r].rsp.cart_id = req[r].cartId
  /\ req[r].rsp.cart_id = req[r].newCart.cart_id
  /\ req[r].rsp.cstatus = "saved"

\* C7 as stated: in every interleaving a successful POST /carts answers 201
\* 'Cart saved' exactly when the store held no record with the resolved id at
\* the moment its write took effect, and 200 'Cart updated' exactly when it
\* replaced a record.
C7_StatusReflectsStoreAtWrite ==
  \A r \in Reqs :
    Saved(r) =>
      /\ req[r].rsp.status = 201 <=> ~req[r].existedAtWrite
      /\ req[r].rsp.status = 200 <=> req[r].existedAtWrite
      /\ req[r].rsp.message = (IF req[r].existedAtWrite THEN "Cart updated" ELSE "Cart saved")
      /\ CarriesIdAndStatus(r)

\* C7, amended: a successful POST /carts answers 201 'Cart saved' exactly
\* when the collection as this request read it held no record with the
\* resolved id, and 200 'Cart updated' exactly when it held one; that is the
\* store at the moment of its write whenever no other request's write took
\* effect between this request's read and its write.
C7_StatusReflectsStoreAsRead ==
  \A r \in Reqs :
    Saved(r) =>
      /\ req[r].rsp.status = 201 <=> ~FoundWhenRead(r)
      /\ req[r].rsp.status = 200 <=> FoundWhenRead(r)
      /\ req[r].rsp.message = (IF FoundWhenRead(r) THEN "Cart updated" ELSE "Cart saved")
      /\ ~req[r].stale => (req[r].existedAtWrite <=> FoundWhenRead(r))
      /\ CarriesIdAndStatus(r)

\* a request that overlapped another one's read-modify-write replaced a record
C7_Witness ==
  \E r \in Reqs :
    /\ Saved(r)
    /\ req[r].overlap # {}
    /\ req[r].rsp.status = 200
    /\ req[r].rsp.message = "Cart updated"

\* earlier and later are two successful submissions of different cart_ids that
\* both read the collection before either wrote it; later's write is the
\* latest one, and the collection later read did not hold earlier's cart_id
Overlapped(earlier, later) ==
  /\ earlier # later
  /\ Saved(earlier) /\ Saved(later)
  /\ lastWriter = later
  /\ earlier \in req[later].overlap \/ later \in req[earlier].overlap
  /\ req[earlier].cartId # req[later].cartId
  /\ req[earlier].cartId \notin CartIdsOf(req[later].snap)

\* C10: when two successful submissions of different cart_ids both read the
\* collection before either writes, the collection after the later write lacks
\* the cart of the earlier writer.
C10_LaterWriteDropsEarlier ==
  \A earlier \in Reqs, later \in Reqs :
    Overlapped(earlier, later) =>
      /\ req[earlier].cartId \notin CartIdsOf(Stored)
      /\ req[later].stale

\* the lost update: both were answered with success and the first writer's
\* cart is gone
C10_Witness ==
  \E earlier \in Reqs, later \in Reqs :
    /\ Overlapped(earlier, later)
    /\ req[earlier].cartWrites = 1
    /\ req[later].cartWrites = 1
    /\ req[earlier].cartId \notin CartIdsOf(Stored)

\* r is a GET /products that has been answered
Listed(r) == req[r].op = "GET /products" /\ req[r].pc = "done"

\* the limit the listing is to apply: the query value when it is a positive
\* integer, 10 otherwise
PositiveLimit(q) ==
  LET p == ParseInt(q) IN IF IsFiniteNum(p) /\ p.n > 0 THEN p.n ELSE 10

Min(a, b) == IF a <= b THEN a ELSE b

\* C8: GET /products answers 200 with the first min(L, n) products of the
\* n-product catalog in storage order and total equal to that count, where L
\* is the limit query value when it is a valid positive integer and 10
\* otherwise.
C8_ListsFirstProducts ==
  \A r \in Reqs :
    Listed(r) =>
      LET products == ReadJsonOrEmpty(prodFile)
          count == Min(PositiveLimit(req[r].query), Len(products))
      IN /\ req[r].rsp.status = 200
         /\ req[r].rsp.products = SubSeq(products, 1, count)
         /\ req[r].rsp.total = count

\* r is a GET /products/:id that has been answered
Looked(r) == req[r].op = "GET /products/:id" /\ req[r].pc = "done"

\* the positions of the catalog whose id is numerically equal to the requested one
Matches(products, q) ==
  {i \in 1..Len(products) : StrictEqNum(Number(products[i].id), Number(q))}

\* C9: GET /products/:id answers 404 product_not_found when no catalog record
\* has an id numerically equal to the requested id, and otherwise answers 200
\* with exactly the stored record of the first catalog entry whose id matches;
\* it never modifies either collection.
C9_FirstMatchOrNotFound ==
  /\ [](\A r \in Reqs :
          Looked(r) =>
            LET products == ReadJsonOrEmpty(prodFile)
                hits == Matches(products, req[r].query)
            IN IF hits = {}
               THEN req[r].rsp = ErrorResponse(404, "product_not_found")
               ELSE /\ req[r].rsp.status = 200
                    /\ \E i \in hits :
                         /\ \A j \in hits : i <= j
                         /\ req[r].rsp.product = products[i])
  /\ [][(\E r \in Reqs : req[r].op = "GET /products/:id" /\ req'[r] # req[r])
          => prodFile' = prodFile /\ cartFile' = cartFile]_vars

\* a lookup was answered with the first of two records whose ids match
C9_Witness ==
  \E r \in Reqs :
    /\ Looked(r)
    /\ req[r].rsp.status = 200
    /\ Cardinality(Matches(ReadJsonOrEmpty(prodFile), req[r].query)) = 2
    /\ req[r].rsp.product = Catalog[1]

\* the item lacks product_id or quantity
LacksField(it) == it.product_id.t = "undefined" \/ it.quantity.t = "undefined"

\* the item's quantity is not a finite number above zero
BadQuantity(it) == ~(IsFiniteNum(Number(it.quantity)) /\ Number(it.quantity).n > 0)

\* the item's product_id matches no product of the catalog
UnknownProduct(it, products) ==
  ~\E i \in 1..Len(products) : StrictEqNum(Number(products[i].id), Number(it.product_id))

\* the one reason reported for an invalid item
ReasonOf(it) ==
  CASE LacksField(it) -> "product_id and quantity are required"
    [] ~LacksField(it) /\ BadQuantity(it) -> "quantity must be a positive number"
    [] OTHER -> "product_not_found"

\* C11: validation is ordered with hard stops.  An invalid customer_id gets
\* missing_customer_id whatever the items are; a valid customer_id with items
\* that is no non-empty array gets items_required; only otherwise can
\* invalid_items be returned.  Within an item the checks are ordered: each
\* invalid item yields exactly one reason, missing fields before invalid
\* quantity before product_not_found.
C11_ValidationOrdered ==
  \A r \in Reqs :
    Posted(r) =>
      LET body == req[r].body
          details == req[r].rsp.details
      IN /\ BadCustomerId(body) => req[r].rsp = ErrorResponse(400, "missing_customer_id")
         /\ ~BadCustomerId(body) /\ BadItems(body) =>
              req[r].rsp = ErrorResponse(400, "items_required")
         /\ req[r].rsp.error = "invalid_items" =>
              /\ ~BadCustomerId(body) /\ ~BadItems(body)
              /\ req[r].rsp.status = 400
              /\ \A i \in 1..Len(details), j \in 1..Len(details) :
                   i # j => details[i].index # details[j].index
              /\ \A i \in 1..Len(details) :
                   details[i].reason = ReasonOf(body.items.a[details[i].index + 1])

\* an item that fails both the quantity check and the product lookup was
\* reported for its quantity, and one that lacks its quantity for the missing
\* field
C11_Witness ==
  \E r \in Reqs :
    /\ Posted(r)
    /\ req[r].rsp.error = "invalid_items"
    /\ Len(req[r].rsp.details) = 2
    /\ \E i \in 1..2, j \in 1..2 :
         LET a == req[r].body.items.a[req[r].rsp.details[i].index + 1]
             b == req[r].body.items.a[req[r].rsp.details[j].index + 1]
         IN /\ ~LacksField(a) /\ BadQuantity(a) /\ UnknownProduct(a, req[r].prodSnap)
            /\ req[r].rsp.details[i].reason = "quantity must be a positive number"
            /\ LacksField(b) /\ BadQuantity(b)
            /\ req[r].rsp.details[j].reason = "product_id and quantity are required"

\* the carts of a collection whose customer_id is the string v, in order
CartsOf(carts, v) == SelectSeq(carts, LAMBDA c : v.t = "string" /\ c.customer_id = v.s)

\* r takes a step as a request of one of the three GET routes
ReadOnlyStep(r) ==
  /\ req'[r] # req[r]
  /\ req'[r].op \in {"GET /carts", "GET /products", "GET /products/:id"}

\* C12: GET /carts with a customer_id answers 200 with exactly the stored
\* carts whose customer_id equals the query value, in storage order, with
\* total equal to their count; it answers 400 missing_user_id when customer_id
\* is absent or empty; neither GET /carts nor the two product endpoints ever
\* change the cart collection.
C12_CartsOfCustomer ==
  [][\A r \in Reqs :
       /\ (req[r].op = "GET /carts" /\ req[r].pc = "carts" /\ req'[r].pc = "done") =>
            LET mine == CartsOf(ReadJsonOrEmpty(cartFile), req[r].query)
            IN req'[r].rsp = [NoResponse EXCEPT !.status = 200, !.total = Len(mine),
                                                !.carts = mine]
       /\ (req[r].pc = "idle" /\ req'[r].op = "GET /carts") =>
            IF req'[r].query \in {Undef, Str("")}
            THEN req'[r].pc = "done" /\ req'[r].rsp = ErrorResponse(400, "missing_user_id")
            ELSE req'[r].pc = "carts"
       /\ ReadOnlyStep(r) => cartFile' = cartFile]_vars

\* a customer was given one of the two stored carts, the other one being
\* another customer's
C12_Witness ==
  \E r \in Reqs :
    /\ req[r].op = "GET /carts" /\ req[r].pc = "done"
    /\ req[r].rsp.status = 200
    /\ req[r].rsp.total = 1
    /\ Len(req[r].snap) = 2
    /\ req[r].rsp.carts[1].customer_id = req[r].query.s
    /\ \E i \in 1..2 : req[r].snap[i].customer_id # req[r].query.s

\* every item is an object with both fields and a quantity above zero
WellFormedItems(items) ==
  \A k \in 1..Len(items) :
    items[k].k = "object" /\ ~LacksField(items[k]) /\ ~BadQuantity(items[k])

\* r leaves the stage at without a failed read
Passes(r, at) ==
  /\ req[r].pc = at
  /\ req'[r].pc # at
  /\ ~req'[r].readFailed

\* C13: a missing product or cart collection is an empty collection, not an
\* error.  With no product collection GET /products/:id answers 404 and a
\* POST /carts with well-formed items is rejected 400 invalid_items with
\* product_not_found at every index; with no cart collection a valid POST
\* /carts creates the collection with that single cart and answers 201.  Any
\* other failure of a storage read makes the request answer 500
\* internal_server_error without writing.
C13_MissingIsEmpty ==
  [][\A r \in Reqs :
       /\ (req[r].op = "GET /products/:id" /\ Passes(r, "products") /\ ~prodFile.exists) =>
            req'[r].rsp = ErrorResponse(404, "product_not_found")
       /\ (req[r].op = "POST /carts" /\ Passes(r, "products") /\ ~prodFile.exists
             /\ WellFormedItems(req[r].body.items.a)) =>
            LET details == req'[r].rsp.details IN
            /\ req'[r].pc = "done"
            /\ req'[r].rsp.status = 400
            /\ req'[r].rsp.error = "invalid_items"
            /\ Len(details) = Len(req[r].body.items.a)
            /\ \A i \in 1..Len(details) :
                 details[i].index = i - 1 /\ details[i].reason = "product_not_found"
       /\ (req[r].op = "POST /carts" /\ Passes(r, "carts") /\ ~cartFile.exists) =>
            /\ req'[r].pc = "write"
            /\ req'[r].snap = << >>
            /\ req'[r].carts = << req'[r].newCart >>
       /\ (req[r].op = "POST /carts" /\ req[r].pc = "write" /\ req'[r].pc = "done"
             /\ req'[r].rsp.status # 500 /\ req[r].snap = << >>) =>
            /\ cartFile' = FileOf(<< JsonCart(req[r].newCart) >>)
            /\ req'[r].rsp.status = 201
            /\ req'[r].rsp.message = "Cart saved"
       /\ (req'[r].readFailed /\ ~req[r].readFailed) =>
            /\ req'[r].pc = "done"
            /\ req'[r].rsp = ErrorResponse(500, "internal_server_error")
            /\ req'[r].cartWrites = 0
            /\ cartFile' = cartFile]_vars

\* a valid POST /carts found no cart collection and created it with its one
\* cart, and another request was answered 500 for a read that failed
C13_Witness ==
  \E r \in Reqs, f \in Reqs :
    /\ Saved(r)
    /\ req[r].snap = << >>
    /\ req[r].rsp.status = 201
    /\ Stored = << JsonCart(req[r].newCart) >>
    /\ req[f].readFailed
    /\ req[f].rsp.status = 500

\* r's write takes effect, and no other write has since r read the collection
WritesAlone(r) ==
  /\ req[r].op = "POST /carts"
  /\ req[r].pc = "write"
  /\ req'[r].pc = "done"
  /\ req'[r].rsp.status \in {200, 201}
  /\ ~req[r].stale

\* C14: a successful POST /carts that runs without another write interleaved
\* changes exactly one position of the cart collection: a record with the
\* resolved cart_id is replaced in place at its index, otherwise the new cart
\* is appended at the end; every other record and the order are unchanged,
\* and the length grows by one only in the append case.
C14_OnePositionChanges ==
  [][\A r \in Reqs :
       WritesAlone(r) =>
         LET old == ReadJsonOrEmpty(cartFile)
             new == ReadJsonOrEmpty(cartFile')
             at == PositionsOf(old, req[r].cartId)
             cart == JsonCart(req[r].newCart)
         IN /\ cartFile'.exists
            /\ IF at # {}
               THEN /\ Len(new) = Len(old)
                    /\ req'[r].rsp.status = 200
                    /\ \E k \in at :
                         /\ \A j \in at : k <= j
                         /\ new[k] = cart
                         /\ \A j \in (1..Len(old)) \ {k} : new[j] = old[j]
               ELSE /\ Len(new) = Len(old) + 1
                    /\ req'[r].rsp.status = 201
                    /\ new[Len(new)] = cart
                    /\ \A j \in 1..Len(old) : new[j] = old[j]]_vars

\* the first of two stored records was replaced in place, the second one
\* staying where it was
C14_Witness ==
  \E r \in Reqs :
    /\ Saved(r)
    /\ lastWriter = r
    /\ ~req[r].stale
    /\ req[r].rsp.status = 200
    /\ Len(req[r].snap) = 2
    /\ Len(Stored) = 2
    /\ req[r].snap[1].cart_id = req[r].cartId
    /\ Stored[1] = JsonCart(req[r].newCart)
    /\ Stored[1] # req[r].snap[1]
    /\ Stored[2] = req[r].snap[2]

\* the record is well-shaped for the request that wrote it
ShapedFor(c, r) ==
  LET sent == req[r].body.items.a IN
  /\ c.status = "saved"
  /\ req[r].body.customer_id.t = "string"
  /\ c.customer_id = req[r].body.customer_id.s
  /\ Trim(c.customer_id) # ""
  /\ Len(c.items) > 0
  /\ Len(c.items) = Len(sent)
  /\ \A i \in 1..Len(c.items) :
       /\ IsFiniteNum(c.items[i].quantity)
       /\ c.items[i].quantity.n > 0
       /\ c.items[i].quantity = Number(sent[i].quantity)
       /\ IsFiniteNum(c.items[i].product_id)
       /\ c.items[i].product_id = Number(sent[i].product_id)
       /\ \E k \in 1..Len(req[r].prodSnap) :
            StrictEqNum(Number(req[r].prodSnap[k].id), c.items[i].product_id)

\* C15: every cart record written by POST /carts has status 'saved', a
\* customer_id that is a string non-empty after trimming, a non-empty items
\* sequence of the same length and order as the request's items, and for
\* every item a numeric quantity above zero and a numeric product_id that
\* matched a product of the catalog read during that request's validation.
C15_StoredRecordShape ==
  \A r \in Reqs :
    req[r].cartWrites > 0 =>
      /\ PositionsOf(Stored, req[r].cartId) # {}
      /\ \A i \in PositionsOf(Stored, req[r].cartId) : ShapedFor(Stored[i], r)

\* a cart sent with its ids and quantities as strings, and a customer_id with
\* spaces around it, was stored with numbers
C15_Witness ==
  \E r \in Reqs :
    /\ req[r].cartWrites > 0
    /\ Len(Stored) > 0
    /\ Stored[Len(Stored)].cart_id = req[r].cartId
    /\ Len(req[r].body.items.a) = 2
    /\ req[r].body.items.a[1].product_id = Str("2")
    /\ req[r].body.items.a[1].quantity = Str("3")
    /\ Stored[Len(Stored)].items[1] = [product_id |-> Num(2), quantity |-> Num(3)]
    /\ req[r].body.customer_id = Str(" u1 ")

\* r has resolved its cart_id
Resolved(r) == req[r].op = "POST /carts" /\ req[r].pc \in {"write", "done"} /\ req[r].cartId # ""

\* the request supplies a cart_id that is a string non-empty after trimming
Supplies(body) == body.cart_id.t = "string" /\ Trim(body.cart_id.s) # ""

\* id is CART-<YYYYMMDD>-<n> for the UTC date of an instant of the clock no
\* later than the request's updated_at and a drawn n
GeneratedFor(id, r) ==
  \E k \in 0..MaxClock, n \in RndChoices :
    /\ n >= 1000 /\ n <= 9999
    /\ ToISOString(DateNow(k)).year = req[r].newCart.updated_at.year
    /\ DateNow(k).day <= DateParse(req[r].newCart.updated_at).day
    /\ DateNow(k).day = DateParse(req[r].newCart.updated_at).day =>
         DateNow(k).ms <= req[r].newCart.updated_at.tod
    /\ id = "CART-" \o ToString(ToISOString(DateNow(k)).year)
                    \o Pad2(ToISOString(DateNow(k)).month)
                    \o Pad2(ToISOString(DateNow(k)).day) \o "-" \o ToString(n)

\* the resolved id is the one stored and returned, whether or not the
\* collection already held it
StoredAndReturned(r) ==
  /\ req[r].newCart.cart_id = req[r].cartId
  /\ Saved(r) => req[r].rsp.cart_id = req[r].cartId
  /\ Saved(r) /\ lastWriter = r => req[r].cartId \in CartIdsOf(Stored)
  /\ req[r].existingIndex >= 0 <=> req[r].cartId \in CartIdsOf(req[r].snap)

\* C16 as stated: a supplied cart_id that is a string non-empty after
\* trimming is resolved, stored and returned verbatim; otherwise the id is
\* generated as CART-<UTC date YYYYMMDD>-<n>, n in [1000, 9999], without
\* checking the store for a collision.
C16_SuppliedIdVerbatim ==
  \A r \in Reqs :
    Resolved(r) =>
      /\ StoredAndReturned(r)
      /\ IF Supplies(req[r].body)
         THEN req[r].cartId = req[r].body.cart_id.s
         ELSE GeneratedFor(req[r].cartId, r)

\* C16, amended: a supplied cart_id that is a string non-empty after trimming
\* is resolved, stored and returned with the white space around it trimmed;
\* otherwise the id is generated as CART-<UTC date YYYYMMDD>-<n>, n in
\* [1000, 9999], without checking the store for a collision.
C16_SuppliedIdTrimmed ==
  \A r \in Reqs :
    Resolved(r) =>
      /\ StoredAndReturned(r)
      /\ IF Supplies(req[r].body)
         THEN req[r].cartId = Trim(req[r].body.cart_id.s)
         ELSE GeneratedFor(req[r].cartId, r)

\* a cart_id sent with spaces around it was stored without them, and a
\* request whose cart_id is a number got a generated id
C16_Witness ==
  \E r \in Reqs, g \in Reqs :
    /\ Saved(r)
    /\ req[r].body.cart_id = Str(" A ")
    /\ req[r].rsp.cart_id = "A"
    /\ "A" \in CartIdsOf(Stored)
    /\ Saved(g)
    /\ req[g].body.cart_id = Num(7)
    /\ req[g].rsp.cart_id = "CART-20240223-9999"
    /\ "CART-20240223-9999" \in CartIdsOf(Stored)

\* the positions of the collection w read that hold the cart_id it resolved,
\* under another customer_id than the one w sent
OwnedByOther(w) ==
  {k \in PositionsOf(req[w].snap, req[w].cartId) :
     req[w].snap[k].customer_id # req[w].body.customer_id.s}

\* w is a successful POST /carts whose cart_id was another customer's cart
TookOver(w) == Saved(w) /\ OwnedByOther(w) # {}

\* C17: replacement is keyed on cart_id alone.  A valid submission by
\* customer B whose resolved cart_id, supplied or generated, is that of a
\* stored cart of another customer A replaces that record, answers 200, sets
\* the stored customer_id to B and keeps A's created_at; afterwards GET /carts
\* for A no longer returns the cart_id.
C17_NoOwnershipCheck ==
  /\ [](\A w \in Reqs :
          TookOver(w) =>
            /\ req[w].rsp.status = 200
            /\ req[w].rsp.message = "Cart updated"
            /\ req[w].newCart.customer_id = req[w].body.customer_id.s
            /\ \A k \in OwnedByOther(w) :
                 /\ req[w].carts[k].cart_id = req[w].cartId
                 /\ req[w].carts[k].customer_id = req[w].body.customer_id.s
                 /\ req[w].carts[k].created_at = req[w].snap[k].created_at
                 /\ Len(req[w].carts) = Len(req[w].snap)
            /\ lastWriter = w =>
                 /\ Cardinality(PositionsOf(Stored, req[w].cartId)) = 1
                 /\ \A i \in PositionsOf(Stored, req[w].cartId) :
                      /\ Stored[i].customer_id = req[w].body.customer_id.s
                      /\ \E k \in OwnedByOther(w) :
                           Stored[i].created_at = req[w].snap[k].created_at)
  /\ [][\A g \in Reqs, w \in Reqs :
          (/\ req[g].op = "GET /carts" /\ req[g].pc = "carts" /\ req'[g].pc = "done"
           /\ TookOver(w) /\ lastWriter = w
           /\ \E k \in OwnedByOther(w) : req[w].snap[k].customer_id = req[g].query.s) =>
            /\ req'[g].rsp.status = 200
            /\ req[w].cartId \notin CartIdsOf(req'[g].rsp.carts)]_vars

\* customer u2 replaced the cart u1 had stored a day before, and u1, who asks
\* for their carts afterwards, gets none
C17_Witness ==
  \E w \in Reqs, g \in Reqs :
    /\ TookOver(w)
    /\ lastWriter = w
    /\ req[w].body.customer_id = Str("u2")
    /\ req[w].rsp.status = 200
    /\ Stored[1].cart_id = "A"
    /\ Stored[1].customer_id = "u2"
    /\ Stored[1].created_at = OldCart.created_at
    /\ Stored[1].updated_at # OldCart.updated_at
    /\ req[g].op = "GET /carts" /\ req[g].pc = "done"
    /\ req[g].query = Str("u1")
    /\ req[g].snap = Stored
    /\ req[g].rsp.total = 0

====
